---- MODULE Spec2Model ----
(***************************************************************************)
(* Branching-logic data-quality validator                                  *)
(* (Old-Dataquality-Code/qualityCheckEnhanced.py).                         *)
(*                                                                         *)
(* Text is modelled as a sequence of one-character strings, so that the    *)
(* compiler's index/slice arithmetic is carried out on the characters.     *)
(* A compiled rule ("process") is a sequence of items; the source stores   *)
(* a condition as [[verVar, field_name], verNum] and a connector as the    *)
(* bare string 'and'/'or'; here both are records tagged by "kind".         *)
(***************************************************************************)
EXTENDS Integers, Sequences, FiniteSets, TLC

\* ------------------------------------------------------------------------
\* Bounds of the model
\* ------------------------------------------------------------------------
MaxConds == 3
MaxRecords == 2
MaxMeta == 2

\* ------------------------------------------------------------------------
\* Python string primitives
\* ------------------------------------------------------------------------
Min(a, b) == IF a < b THEN a ELSE b

\* str.index(c), 0-based; -1 stands for the ValueError of a missing character
IndexOf(s, c) ==
  IF \E k \in 1..Len(s) : s[k] = c
  THEN (CHOOSE k \in 1..Len(s) : s[k] = c /\ \A m \in 1..(k-1) : s[m] # c) - 1
  ELSE -1

\* s[a:b] for 0 <= a
Slice(s, a, b) == SubSeq(s, a + 1, Min(b, Len(s)))

\* s[a:] for 0 <= a
SliceFrom(s, a) == SubSeq(s, a + 1, Len(s))

\* ------------------------------------------------------------------------
\* Rule items
\* ------------------------------------------------------------------------
\* [[verVar, branchingLogic[1]], verNum]
Condition(verVar, field, verNum) ==
  [kind |-> "cond", verVar |-> verVar, field |-> field, verNum |-> verNum]

\* 'and' / 'or'
Connector(op) == [kind |-> "conn", op |-> op]

\* ------------------------------------------------------------------------
\* Logic compiler: one iteration of the while loop (lines 27-54)
\* ------------------------------------------------------------------------
CompileResult(err, items, rest) == [err |-> err, items |-> items, logic |-> rest]

\* variant: every connector is read as 'and'
CompileTail_AlwaysAnd(logic, cond, count) ==
  LET l1 == SliceFrom(logic, count)
      l2 == IF l1 # <<>> /\ l1[1] = " " THEN Tail(l1) ELSE l1
      conn == Connector("and")
      nxt == IndexOf(l2, "[")
  IN  IF l1 = <<>> \/ l2 = <<>> THEN CompileResult("IndexError", <<>>, logic)
      ELSE IF nxt = -1 THEN CompileResult("ValueError", <<cond, conn>>, l2)
      ELSE CompileResult("", <<cond, conn>>, SliceFrom(l2, nxt))

\* variant: compilation of the field ends quietly when no '[' remains
CompileTail_StopAtEnd(logic, cond, count) ==
  LET l1 == SliceFrom(logic, count)
      l2 == IF l1 # <<>> /\ l1[1] = " " THEN Tail(l1) ELSE l1
      conn == IF l2[1] = "o" THEN Connector("or") ELSE Connector("and")
      nxt == IndexOf(l2, "[")
  IN  IF l1 = <<>> \/ l2 = <<>> THEN CompileResult("IndexError", <<>>, logic)
      ELSE IF nxt = -1 THEN CompileResult("", <<cond, conn>>, <<>>)
      ELSE CompileResult("", <<cond, conn>>, SliceFrom(l2, nxt))

\* text without its leading blanks
RECURSIVE StripBlanks(_)
StripBlanks(text) ==
  IF text # <<>> /\ Head(text) = " " THEN StripBlanks(Tail(text)) ELSE text

\* variant: every blank before the connector is skipped
CompileTail_SkipBlanks(logic, cond, count) ==
  LET l1 == SliceFrom(logic, count)
      l2 == StripBlanks(l1)
      conn == IF l2[1] = "o" THEN Connector("or") ELSE Connector("and")
      nxt == IndexOf(l2, "[")
  IN  IF l1 = <<>> \/ l2 = <<>> THEN CompileResult("IndexError", <<>>, logic)
      ELSE IF nxt = -1 THEN CompileResult("ValueError", <<cond, conn>>, l2)
      ELSE CompileResult("", <<cond, conn>>, SliceFrom(l2, nxt))

\* variant: the next '[' is looked for in the text as it was, nothing is cut
CompileTail_NoAdvance(logic, cond, count) ==
  LET l1 == SliceFrom(logic, count)
      l2 == IF l1 # <<>> /\ l1[1] = " " THEN Tail(l1) ELSE l1
      conn == IF l2[1] = "o" THEN Connector("or") ELSE Connector("and")
      nxt == IndexOf(logic, "[")
  IN  IF l1 = <<>> \/ l2 = <<>> THEN CompileResult("IndexError", <<>>, logic)
      ELSE IF nxt = -1 THEN CompileResult("ValueError", <<cond, conn>>, l2)
      ELSE CompileResult("", <<cond, conn>>, SliceFrom(logic, nxt))

\* lines 37-51: text remains after the closing quote
CompileTail(logic, cond, count) ==
  LET l1 == SliceFrom(logic, count)
      l2 == IF l1 # <<>> /\ l1[1] = " " THEN Tail(l1) ELSE l1
      conn == IF l2[1] = "o" THEN Connector("or") ELSE Connector("and")
      nxt == IndexOf(l2, "[")
  IN  IF l1 = <<>> \/ l2 = <<>> THEN CompileResult("IndexError", <<>>, logic)
      ELSE IF nxt = -1 THEN CompileResult("ValueError", <<cond, conn>>, l2)
      ELSE CompileResult("", <<cond, conn>>, SliceFrom(l2, nxt))

\* variant: the literal is read two characters wide
CompileIter_TwoChars(logic, field_name) ==
  LET b1 == IndexOf(logic, "[")
      b2 == IndexOf(logic, "]")
      verVar == Slice(logic, b1 + 1, b2)
      q == IndexOf(logic, "'")
      idx1 == q + 1
      idx2 == idx1 + 2
      verNum == Slice(logic, idx1, idx2)
      count == idx2 + 1
      cond == Condition(verVar, field_name, verNum)
  IN  IF b1 = -1 \/ b2 = -1 \/ q = -1 THEN CompileResult("ValueError", <<>>, logic)
      ELSE IF count # Len(logic) THEN CompileTail(logic, cond, count)
      ELSE CompileResult("", <<cond>>, <<>>)

CompileIter(logic, field_name) ==
  LET b1 == IndexOf(logic, "[")
      b2 == IndexOf(logic, "]")
      verVar == Slice(logic, b1 + 1, b2)
      q == IndexOf(logic, "'")
      idx1 == q + 1
      idx2 == idx1 + 1
      verNum == Slice(logic, idx1, idx2)
      count == idx2 + 1
      cond == Condition(verVar, field_name, verNum)
  IN  IF b1 = -1 \/ b2 = -1 \/ q = -1 THEN CompileResult("ValueError", <<>>, logic)
      ELSE IF count # Len(logic) THEN CompileTail(logic, cond, count)
      ELSE CompileResult("", <<cond>>, <<>>)

\* ------------------------------------------------------------------------
\* Consistency checker: one (record, rule) pair (lines 82-115)
\* ------------------------------------------------------------------------
\* lines 99-107: "1 "/"0 " per condition and the connector words, kept as
\* the whitespace-separated tokens of conditionString
RECURSIVE ConditionString(_, _)
ConditionString(process, row) ==
  IF process = <<>> THEN <<>>
  ELSE LET item == Head(process)
           tok == IF item.kind = "conn" THEN item.op
                  ELSE IF row[item.verVar] = item.verNum THEN "1" ELSE "0"
       IN  <<tok>> \o ConditionString(Tail(process), row)

\* Python's and_test: atom ('and' atom)*, value of the first falsy operand
RECURSIVE PyAndTest(_)
PyAndTest(toks) ==
  LET a == IF toks[1] = "1" THEN 1 ELSE 0
  IN  IF Len(toks) = 1 THEN a
      ELSE IF a = 0 THEN 0
      ELSE PyAndTest(SubSeq(toks, 3, Len(toks)))

\* variant: 'and' and 'or' folded strictly left to right
RECURSIVE PyEval_Flat(_)
PyEval_Flat(toks) ==
  LET n == Len(toks)
      a == IF toks[n] = "1" THEN 1 ELSE 0
  IN  IF n = 1 THEN a
      ELSE LET l == PyEval_Flat(SubSeq(toks, 1, n - 2))
           IN  IF toks[n - 1] = "and" THEN (IF l = 0 THEN 0 ELSE a)
               ELSE (IF l # 0 THEN l ELSE a)

\* Python's or_test: and_test ('or' and_test)*, value of the first truthy
\* operand; 'and' binds tighter than 'or'
RECURSIVE PyEval(_)
PyEval(toks) ==
  IF \E k \in 1..Len(toks) : toks[k] = "or"
  THEN LET k == CHOOSE k \in 1..Len(toks) :
                  toks[k] = "or" /\ \A m \in 1..(k-1) : toks[m] # "or"
           l == PyAndTest(SubSeq(toks, 1, k - 1))
       IN  IF l # 0 THEN l ELSE PyEval(SubSeq(toks, k + 1, Len(toks)))
  ELSE PyAndTest(toks)

\* the fields row[...] is asked for by the chain branch, in order
ReferencedFields(process) ==
  {process[k].verVar : k \in {m \in 1..Len(process) : process[m].kind = "cond"}}

PairEntry(index, field) == [kind |-> "pair", index |-> index, field |-> field]

CheckResult(err, cnt, wrong, warn) ==
  [err |-> err, count |-> cnt, wrongRows |-> wrong, warning |-> warn]

\* lines 84-94: the branch taken by a rule of exactly two items
CheckPairOfTwo(columns, row, process, cnt, wrong) ==
  IF process[1].verNum \notin columns
  THEN CheckResult("", cnt, wrong, <<process[1].verNum>>)
  ELSE IF row[process[1].verNum] = <<>>
  THEN CheckResult("", cnt, wrong, <<>>)
  ELSE IF ~({process[1].verVar, process[1].field} \subseteq columns)
  THEN CheckResult("", cnt, wrong, <<process[1].verNum>>)
  ELSE CheckResult("ValueError", cnt, wrong, <<>>)

\* variant: a violation is listed but the counter is not taken back
CheckChain_NoDecrement(columns, row, index, process, cnt, wrong) ==
  IF process[1].field \notin columns
  THEN CheckResult("", cnt, wrong, <<process[1].field>>)
  ELSE IF row[process[1].field] = <<>>
  THEN CheckResult("", cnt, wrong, <<>>)
  ELSE IF ~(ReferencedFields(process) \subseteq columns)
  THEN CheckResult("", cnt, wrong, <<process[1].field>>)
  ELSE IF PyEval(ConditionString(process, row)) = 0
  THEN CheckResult("", cnt,
                   Append(wrong, PairEntry(index, process[1].verVar)), <<>>)
  ELSE CheckResult("", cnt, wrong, <<>>)

\* variant: the KeyError of an absent field is not caught
CheckChain_Uncaught(columns, row, index, process, cnt, wrong) ==
  IF process[1].field \notin columns
  THEN CheckResult("KeyError", cnt, wrong, <<>>)
  ELSE IF row[process[1].field] = <<>>
  THEN CheckResult("", cnt, wrong, <<>>)
  ELSE IF ~(ReferencedFields(process) \subseteq columns)
  THEN CheckResult("KeyError", cnt, wrong, <<>>)
  ELSE IF PyEval(ConditionString(process, row)) = 0
  THEN CheckResult("", cnt - 1,
                   Append(wrong, PairEntry(index, process[1].verVar)), <<>>)
  ELSE CheckResult("", cnt, wrong, <<>>)

\* variant: a violation is listed under the governed field
CheckChain_GovernedField(columns, row, index, process, cnt, wrong) ==
  IF process[1].field \notin columns
  THEN CheckResult("", cnt, wrong, <<process[1].field>>)
  ELSE IF row[process[1].field] = <<>>
  THEN CheckResult("", cnt, wrong, <<>>)
  ELSE IF ~(ReferencedFields(process) \subseteq columns)
  THEN CheckResult("", cnt, wrong, <<process[1].field>>)
  ELSE IF PyEval(ConditionString(process, row)) = 0
  THEN CheckResult("", cnt - 1,
                   Append(wrong, PairEntry(index, process[1].field)), <<>>)
  ELSE CheckResult("", cnt, wrong, <<>>)

\* variant: a violation replaces the list instead of joining it
CheckChain_Restart(columns, row, index, process, cnt, wrong) ==
  IF process[1].field \notin columns
  THEN CheckResult("", cnt, wrong, <<process[1].field>>)
  ELSE IF row[process[1].field] = <<>>
  THEN CheckResult("", cnt, wrong, <<>>)
  ELSE IF ~(ReferencedFields(process) \subseteq columns)
  THEN CheckResult("", cnt, wrong, <<process[1].field>>)
  ELSE IF PyEval(ConditionString(process, row)) = 0
  THEN CheckResult("", cnt - 1,
                   <<PairEntry(index, process[1].verVar)>>, <<>>)
  ELSE CheckResult("", cnt, wrong, <<>>)

\* variant: a skipped pair is taken off the counter as well
CheckChain_SkipDecrement(columns, row, index, process, cnt, wrong) ==
  IF process[1].field \notin columns
  THEN CheckResult("", cnt - 1, wrong, <<process[1].field>>)
  ELSE IF row[process[1].field] = <<>>
  THEN CheckResult("", cnt, wrong, <<>>)
  ELSE IF ~(ReferencedFields(process) \subseteq columns)
  THEN CheckResult("", cnt - 1, wrong, <<process[1].field>>)
  ELSE IF PyEval(ConditionString(process, row)) = 0
  THEN CheckResult("", cnt - 1,
                   Append(wrong, PairEntry(index, process[1].verVar)), <<>>)
  ELSE CheckResult("", cnt, wrong, <<>>)

\* variant: a violation takes the counter down by two
CheckChain_DoubleDecrement(columns, row, index, process, cnt, wrong) ==
  IF process[1].field \notin columns
  THEN CheckResult("", cnt, wrong, <<process[1].field>>)
  ELSE IF row[process[1].field] = <<>>
  THEN CheckResult("", cnt, wrong, <<>>)
  ELSE IF ~(ReferencedFields(process) \subseteq columns)
  THEN CheckResult("", cnt, wrong, <<process[1].field>>)
  ELSE IF PyEval(ConditionString(process, row)) = 0
  THEN CheckResult("", cnt - 2,
                   Append(wrong, PairEntry(index, process[1].verVar)), <<>>)
  ELSE CheckResult("", cnt, wrong, <<>>)

\* lines 96-113: the chain branch
CheckChain(columns, row, index, process, cnt, wrong) ==
  IF process[1].field \notin columns
  THEN CheckResult("", cnt, wrong, <<process[1].field>>)
  ELSE IF row[process[1].field] = <<>>
  THEN CheckResult("", cnt, wrong, <<>>)
  ELSE IF ~(ReferencedFields(process) \subseteq columns)
  THEN CheckResult("", cnt, wrong, <<process[1].field>>)
  ELSE IF PyEval(ConditionString(process, row)) = 0
  THEN CheckResult("", cnt - 1,
                   Append(wrong, PairEntry(index, process[1].verVar)), <<>>)
  ELSE CheckResult("", cnt, wrong, <<>>)

\* a violation entry that is the rule itself (line 91, wrongRows.append(process))
RuleEntry(process) == [kind |-> "rule", process |-> process]

\* variant: a rule of one comparison is handled as lines 84-94 read: the rule
\* itself is listed and the counter stays
CheckPair_SingleKeepsRule(columns, row, index, process, cnt, wrong) ==
  LET processSize == Len(process)
  IN  IF processSize = 2 THEN CheckPairOfTwo(columns, row, process, cnt + 1, wrong)
      ELSE IF processSize = 0 THEN CheckResult("IndexError", cnt + 1, wrong, <<>>)
      ELSE IF processSize = 1
      THEN IF ~({process[1].field, process[1].verVar} \subseteq columns)
           THEN CheckResult("", cnt + 1, wrong, <<process[1].field>>)
           ELSE IF row[process[1].field] # <<>> /\ row[process[1].verVar] # process[1].verNum
           THEN CheckResult("", cnt + 1, Append(wrong, RuleEntry(process)), <<>>)
           ELSE CheckResult("", cnt + 1, wrong, <<>>)
      ELSE CheckChain(columns, row, index, process, cnt + 1, wrong)

\* lines 82-115
CheckPair(columns, row, index, process, cnt, wrong) ==
  LET processSize == Len(process)
  IN  IF processSize = 2 THEN CheckPairOfTwo(columns, row, process, cnt + 1, wrong)
      ELSE IF processSize = 0 THEN CheckResult("IndexError", cnt + 1, wrong, <<>>)
      ELSE CheckChain(columns, row, index, process, cnt + 1, wrong)

\* ------------------------------------------------------------------------
\* Inputs: metadata feed and record feed
\* ------------------------------------------------------------------------
FieldA == <<"A">>
FieldB == <<"B">>
FieldG == <<"G">>

\* the k-th comparison of a generated logic string
CondField(k) == IF k % 2 = 1 THEN FieldA ELSE FieldB
CondValue(k) == IF k % 4 \in {1, 0} THEN <<"1">> ELSE <<"2">>

\* the rules of the grammar with n one-character comparisons, governing f
GrammarRules(n, f) ==
  { [i \in 1..(2 * n - 1) |->
       IF i % 2 = 1
       THEN Condition(CondField((i + 1) \div 2), f, CondValue((i + 1) \div 2))
       ELSE Connector(c[i \div 2])] : c \in [1..(n - 1) -> {"and", "or"}] }

\* the text of a rule: "[f1] = 'v1' and [f2] = 'v2' ...", with or without
\* blanks around the equals sign
RECURSIVE Serialize(_, _)
Serialize(rule, blanks) ==
  IF rule = <<>> THEN <<>>
  ELSE LET item == Head(rule)
           eq == IF blanks THEN <<" ", "=", " ">> ELSE <<"=">>
           txt == IF item.kind = "conn"
                  THEN IF item.op = "or" THEN <<" ", "o", "r", " ">>
                       ELSE <<" ", "a", "n", "d", " ">>
                  ELSE <<"[">> \o item.verVar \o <<"]">> \o eq
                       \o <<"'">> \o item.verNum \o <<"'">>
       IN  txt \o Serialize(Tail(rule), blanks)

WellFormedRules(f) == UNION {GrammarRules(n, f) : n \in 1..MaxConds}

\* rules of the grammar whose quoted value has more than one character
LongValueRules(f) ==
  { <<Condition(FieldA, f, <<"1", "0">>), Connector("or"),
      Condition(FieldB, f, <<"2">>)>>,
    <<Condition(FieldA, f, <<"1", "0">>), Connector("and"),
      Condition(FieldB, f, <<"2">>)>>,
    <<Condition(FieldA, f, <<"1", "0">>)>> }

\* text outside the grammar
MalformedLogics ==
  { <<"[", "A", "]", " ", "=", " ", "'", "1", "'", " ">>,
    <<"[", "A", "]", " ", "=", " ", "'", "'">>,
    <<"[", "A", "]", " ", "=", " ", "1">>,
    <<"A", " ", "=", " ", "'", "1", "'">> }

\* the first comparison of the generated texts, "[A] = '1'"
FirstComparison ==
  Serialize(<<Condition(CondField(1), FieldG, CondValue(1))>>, TRUE)

\* the second comparison of the generated texts, "[B] = '2'"
SecondComparison ==
  Serialize(<<Condition(CondField(2), FieldG, CondValue(2))>>, TRUE)

\* what stands between two comparisons besides " and " and " or "
OddSeparators ==
  { <<" ", " ", "o", "r", " ">>, <<" ", " ", "a", "n", "d", " ">>,
    <<"o", "r", " ">>, <<" ", "x", "o", "r", " ">> }

OddSeparatorLogics ==
  { FirstComparison \o sep \o SecondComparison : sep \in OddSeparators }

\* a comparison followed by text that holds no '['
TrailingLogics ==
  { FirstComparison \o <<" ">>, FirstComparison \o <<")">> }

FirstLogics ==
  {<<>>}
    \cup {Serialize(r, b) : r \in WellFormedRules(FieldG), b \in BOOLEAN}
    \cup {Serialize(r, TRUE) : r \in LongValueRules(FieldG)}
    \cup MalformedLogics
    \cup OddSeparatorLogics
    \cup TrailingLogics

OtherLogics == {<<>>, Serialize(<<Condition(FieldB, FieldA, <<"2">>)>>, TRUE)}

MetadataRow(field_name, branching_logic) ==
  [field_name |-> field_name, branching_logic |-> branching_logic]

\* the field governed by the k-th metadata row
MetaField(k) == IF k % 3 = 1 THEN FieldG ELSE IF k % 3 = 2 THEN FieldA ELSE FieldB

OtherRows(n) ==
  { [k \in 1..n |-> MetadataRow(MetaField(k + 1), l[k])] : l \in [1..n -> OtherLogics] }

\* the worked scenario: symptom_detail is shown when [has_symptom] = '1'
HasSymptom == <<"h", "a", "s", "_", "s", "y", "m", "p", "t", "o", "m">>
SymptomDetail ==
  <<"s", "y", "m", "p", "t", "o", "m", "_", "d", "e", "t", "a", "i", "l">>
Fever == <<"f", "e", "v", "e", "r">>

ScenarioMetadata ==
  << MetadataRow(SymptomDetail,
       <<"[">> \o HasSymptom \o <<"]", " ", "=", " ", "'", "1", "'">>) >>

ScenarioRow(has, detail) ==
  [f \in {HasSymptom, SymptomDetail} |-> IF f = HasSymptom THEN has ELSE detail]

ScenarioRecords ==
  [columns |-> {HasSymptom, SymptomDetail},
   rows |-> << ScenarioRow(<<"1">>, <<>>), ScenarioRow(<<"1">>, Fever),
               ScenarioRow(<<"0">>, <<>>) >>]

MetadataInputs ==
  {<<>>, ScenarioMetadata}
    \cup UNION { { <<MetadataRow(FieldG, l)>> \o rest :
                     l \in FirstLogics, rest \in OtherRows(n - 1) } :
                 n \in 1..MaxMeta }

\* the i-th record of the pool: A and B in {'1','2'}, G filled or blank
PoolRecord(i) ==
  [f \in {FieldA, FieldB, FieldG} |->
     IF f = FieldA THEN (IF i % 2 = 0 THEN <<"1">> ELSE <<"2">>)
     ELSE IF f = FieldB THEN (IF (i \div 2) % 2 = 0 THEN <<"1">> ELSE <<"2">>)
     ELSE (IF i \div 4 = 0 THEN <<"x">> ELSE <<>>)]

\* two values of A, two of B, G filled or blank
PoolSize == 2 * 2 * 2

Schemas == { {FieldA, FieldB, FieldG}, {FieldA, FieldG}, {FieldA, FieldB} }

Project(rec, columns) == [f \in columns |-> rec[f]]

PoolPicks(n) ==
  { s \in [1..n -> 0..(PoolSize - 1)] : \A k \in 1..(n - 1) : s[k] < s[k + 1] }

DataFrames ==
  { [columns |-> {}, rows |-> <<>>], ScenarioRecords }
    \cup UNION { UNION { { [columns |-> c,
                            rows |-> [k \in 1..n |-> Project(PoolRecord(s[k]), c)]] :
                           s \in PoolPicks(n) } : n \in 1..MaxRecords } :
                 c \in Schemas }

\* ------------------------------------------------------------------------
\* State of a run of the script
\* ------------------------------------------------------------------------
VARIABLES
  pc,                   \* where the script is
  metaDataDf,           \* line 15
  fullBranchingLogics,  \* line 17
  blIdx,                \* rules taken from fullBranchingLogics by line 23
  processes,            \* line 22
  process,              \* line 24
  logic,                \* line 25
  redcapDB,             \* lines 74, 79
  rowIdx,               \* records finished by the loop of line 80
  procIdx,              \* rules finished for the current record, line 81
  count,                \* line 76
  wrongRows,            \* line 78
  warnings,             \* the "... not in dataframe" lines printed
  quality,              \* the value printed by line 124
  err,                  \* the exception that ended the run, if any
  db1,                  \* qualityCheck.py line 15
  db2,                  \* qualityCheck.py line 33
  branchingLogic,       \* qualityCheck.py line 36
  tables,               \* sinan_postgre_local.py line 117
  views,                \* sinan_postgre_local.py line 118
  refresh_cfg,          \* sinan_postgre_local.py line 120
  POP_MUN_CSV,          \* the file named by the environment (line 429)
  df,                   \* the extract read from INPUT_DBC (lines 497-500)
  staging,              \* rows of the staging table
  core,                 \* the core tables, by name
  relations,            \* the views and materialized views, by name
  issued,               \* the REFRESH statements executed by line 403, all runs
  etlLog,               \* the [DROP], [SKIP] and [WARN] lines printed
  tblIdx,               \* tables finished by the loop of line 628
  mvIdx,                \* entries finished by the loop of line 376
  run                   \* runs of the pipeline started against the database

vars == << pc, metaDataDf, fullBranchingLogics, blIdx, processes, process, logic,
           redcapDB, rowIdx, procIdx, count, wrongRows, warnings, quality, err,
           db1, db2, branchingLogic,
           tables, views, refresh_cfg, POP_MUN_CSV, df, staging, core, relations,
           issued, etlLog, tblIdx, mvIdx, run >>

compilerVars == << fullBranchingLogics, blIdx, processes, process, logic >>
checkerVars == << redcapDB, rowIdx, procIdx, count, wrongRows, warnings, quality >>
simpleVars == << db1, db2, branchingLogic >>
etlVars == << tables, views, refresh_cfg, POP_MUN_CSV, df, staging, core, relations,
             issued, etlLog, tblIdx, mvIdx, run >>

\* the pipeline is not part of a run of the quality scripts
NoPipeline ==
  /\ tables = <<>>
  /\ views = <<>>
  /\ refresh_cfg = <<>>
  /\ POP_MUN_CSV = "unset"
  /\ df = <<>>
  /\ staging = <<>>
  /\ core = <<>>
  /\ relations = <<>>
  /\ issued = <<>>
  /\ etlLog = <<>>
  /\ tblIdx = 0
  /\ mvIdx = 0
  /\ run = 0

NoDataFrame == [columns |-> {}, rows |-> <<>>]
NoQuality == [num |-> 0, den |-> 0]

Init ==
  /\ pc = "filter"
  /\ metaDataDf \in MetadataInputs
  /\ fullBranchingLogics = <<>>
  /\ blIdx = 0
  /\ processes = <<>>
  /\ process = <<>>
  /\ logic = <<>>
  /\ redcapDB = NoDataFrame
  /\ rowIdx = 0
  /\ procIdx = 0
  /\ count = 0
  /\ wrongRows = <<>>
  /\ warnings = <<>>
  /\ quality = NoQuality
  /\ err = ""
  /\ db1 = <<>>
  /\ db2 = NoDataFrame
  /\ branchingLogic = <<>>
  /\ NoPipeline

\* variant: rows with empty branching logic are kept
RECURSIVE FilterLogics_All(_)
FilterLogics_All(rows) ==
  IF rows = <<>> THEN <<>>
  ELSE << <<Head(rows).branching_logic, Head(rows).field_name>> >>
       \o FilterLogics_All(Tail(rows))

\* lines 17-20
RECURSIVE FilterLogics(_)
FilterLogics(rows) ==
  IF rows = <<>> THEN <<>>
  ELSE LET row == Head(rows)
       IN  (IF row.branching_logic # <<>>
            THEN << <<row.branching_logic, row.field_name>> >> ELSE <<>>)
           \o FilterLogics(Tail(rows))

BuildFullBranchingLogics ==
  /\ pc = "filter"
  /\ fullBranchingLogics' = FilterLogics(metaDataDf)
  /\ pc' = "for"
  /\ UNCHANGED << etlVars, simpleVars, metaDataDf, blIdx, processes, process, logic, checkerVars, err >>

\* lines 23-25
NextBranchingLogic ==
  /\ pc = "for"
  /\ blIdx < Len(fullBranchingLogics)
  /\ blIdx' = blIdx + 1
  /\ process' = <<>>
  /\ logic' = fullBranchingLogics[blIdx + 1][1]
  /\ pc' = "while"
  /\ UNCHANGED << etlVars, simpleVars, metaDataDf, fullBranchingLogics, processes, checkerVars, err >>

\* lines 26-54, one iteration
CompileIteration ==
  /\ pc = "while"
  /\ logic # <<>>
  /\ LET res == CompileIter(logic, fullBranchingLogics[blIdx][2])
     IN  /\ process' = process \o res.items
         /\ logic' = res.logic
         /\ err' = res.err
         /\ pc' = IF res.err = "" THEN "while" ELSE "aborted"
  /\ UNCHANGED << etlVars, simpleVars, metaDataDf, fullBranchingLogics, blIdx, processes, checkerVars >>

\* line 56
AppendProcess ==
  /\ pc = "while"
  /\ logic = <<>>
  /\ processes' = Append(processes, process)
  /\ pc' = "for"
  /\ UNCHANGED << etlVars, simpleVars, metaDataDf, fullBranchingLogics, blIdx, process, logic,
                  checkerVars, err >>

\* lines 58-79
FetchRecords ==
  /\ pc = "for"
  /\ blIdx = Len(fullBranchingLogics)
  /\ redcapDB' \in DataFrames
  /\ count' = 0
  /\ wrongRows' = <<>>
  /\ rowIdx' = 0
  /\ procIdx' = 0
  /\ pc' = "check"
  /\ UNCHANGED << etlVars, simpleVars, metaDataDf, compilerVars, warnings, quality, err >>

\* lines 80-115, one (record, rule) pair
CheckStep ==
  /\ pc = "check"
  /\ rowIdx < Len(redcapDB.rows)
  /\ processes # <<>>
  /\ LET res == CheckPair(redcapDB.columns, redcapDB.rows[rowIdx + 1], rowIdx,
                          processes[procIdx + 1], count, wrongRows)
         last == procIdx + 1 = Len(processes)
     IN  /\ count' = res.count
         /\ wrongRows' = res.wrongRows
         /\ warnings' = warnings \o res.warning
         /\ err' = res.err
         /\ pc' = IF res.err = "" THEN "check" ELSE "aborted"
         /\ procIdx' = IF last THEN 0 ELSE procIdx + 1
         /\ rowIdx' = IF last THEN rowIdx + 1 ELSE rowIdx
  /\ UNCHANGED << etlVars, simpleVars, metaDataDf, compilerVars, redcapDB, quality >>

\* lines 117-124
Report ==
  /\ pc = "check"
  /\ rowIdx = Len(redcapDB.rows) \/ processes = <<>>
  /\ LET den == Len(redcapDB.rows) * Len(processes)
     IN  IF den = 0
         THEN /\ err' = "ZeroDivisionError"
              /\ pc' = "aborted"
              /\ UNCHANGED quality
         ELSE /\ quality' = [num |-> count, den |-> den]
              /\ pc' = "done"
              /\ UNCHANGED err
  /\ UNCHANGED << etlVars, simpleVars, metaDataDf, compilerVars, redcapDB, rowIdx, procIdx, count,
                  wrongRows, warnings >>

Next ==
  \/ BuildFullBranchingLogics
  \/ NextBranchingLogic
  \/ CompileIteration
  \/ AppendProcess
  \/ FetchRecords
  \/ CheckStep
  \/ Report

Spec == Init /\ [][Next]_vars

\* ------------------------------------------------------------------------
\* The simple checker (Old-Dataquality-Code/qualityCheck.py)
\* ------------------------------------------------------------------------
ExtractResult(e, triples) == [err |-> e, branchingLogic |-> triples]

\* lines 38-50 for one metadata row with non-empty branching logic:
\* [field_name, logic_field, logic_number]; the literal runs from the first
\* quote to the last character but one (idx4 = -1)
ExtractLogic(row) ==
  LET text == row.branching_logic
      b1 == IndexOf(text, "[")
      b2 == IndexOf(text, "]")
      logic_field == Slice(text, b1 + 1, b2)
      q == IndexOf(text, "'")
      idx3 == q + 1
      logic_number == Slice(text, idx3, Len(text) - 1)
  IN  IF b1 = -1 \/ b2 = -1 \/ q = -1 THEN ExtractResult("ValueError", <<>>)
      ELSE ExtractResult("", << <<row.field_name, logic_field, logic_number>> >>)

\* lines 36-50
RECURSIVE ExtractAll(_)
ExtractAll(rows) ==
  IF rows = <<>> THEN ExtractResult("", <<>>)
  ELSE IF Head(rows).branching_logic = <<>> THEN ExtractAll(Tail(rows))
  ELSE LET first == ExtractLogic(Head(rows))
           rest == ExtractAll(Tail(rows))
       IN  IF first.err # "" THEN first
           ELSE ExtractResult(rest.err, first.branchingLogic \o rest.branchingLogic)

SimpleResult(e, cnt) == [err |-> e, count |-> cnt]

\* lines 55-57 for record i and one triple.  db2[logic[0]] is the column of
\* the governed field and is compared with the literal; db2[logic[1]] != ''
\* is a whole column, whose truth value pandas refuses (ValueError), so
\* line 57 is never reached.
SimpleCheckPair(columns, row, triple, cnt) ==
  IF triple[1] \notin columns THEN SimpleResult("KeyError", cnt)
  ELSE IF row[triple[1]] # triple[3] THEN SimpleResult("", cnt)
  ELSE IF triple[2] \notin columns THEN SimpleResult("KeyError", cnt)
  ELSE SimpleResult("ValueError", cnt)

enhancedVars ==
  << metaDataDf, fullBranchingLogics, blIdx, processes, process, logic,
     redcapDB, wrongRows, warnings >>

\* lines 1-33: both feeds are fetched before anything is computed
InitSimple ==
  /\ pc = "extract"
  /\ db1 \in MetadataInputs
  /\ db2 \in DataFrames
  /\ branchingLogic = <<>>
  /\ metaDataDf = <<>>
  /\ fullBranchingLogics = <<>>
  /\ blIdx = 0
  /\ processes = <<>>
  /\ process = <<>>
  /\ logic = <<>>
  /\ redcapDB = NoDataFrame
  /\ rowIdx = 0
  /\ procIdx = 0
  /\ count = 0
  /\ wrongRows = <<>>
  /\ warnings = <<>>
  /\ quality = NoQuality
  /\ err = ""
  /\ NoPipeline

\* lines 36-52
ExtractBranchingLogic ==
  /\ pc = "extract"
  /\ LET res == ExtractAll(db1)
     IN  /\ branchingLogic' = res.branchingLogic
         /\ err' = res.err
         /\ pc' = IF res.err = "" THEN "scheck" ELSE "aborted"
  /\ count' = 0
  /\ UNCHANGED << etlVars, enhancedVars, db1, db2, rowIdx, procIdx, quality >>

\* lines 53-57, one (record, triple) pair
SimpleCheckStep ==
  /\ pc = "scheck"
  /\ rowIdx < Len(db2.rows)
  /\ branchingLogic # <<>>
  /\ LET res == SimpleCheckPair(db2.columns, db2.rows[rowIdx + 1],
                                branchingLogic[procIdx + 1], count)
         last == procIdx + 1 = Len(branchingLogic)
     IN  /\ count' = res.count
         /\ err' = res.err
         /\ pc' = IF res.err = "" THEN "scheck" ELSE "aborted"
         /\ procIdx' = IF last THEN 0 ELSE procIdx + 1
         /\ rowIdx' = IF last THEN rowIdx + 1 ELSE rowIdx
  /\ UNCHANGED << etlVars, enhancedVars, simpleVars, quality >>

\* line 59
SimpleReport ==
  /\ pc = "scheck"
  /\ rowIdx = Len(db2.rows) \/ branchingLogic = <<>>
  /\ IF Len(db1) = 0
     THEN /\ err' = "ZeroDivisionError"
          /\ pc' = "aborted"
          /\ UNCHANGED quality
     ELSE /\ quality' = [num |-> Len(db1) - count, den |-> Len(db1)]
          /\ pc' = "done"
          /\ UNCHANGED err
  /\ UNCHANGED << etlVars, enhancedVars, simpleVars, rowIdx, procIdx, count >>

NextSimple ==
  \/ ExtractBranchingLogic
  \/ SimpleCheckStep
  \/ SimpleReport

SpecSimple == InitSimple /\ [][NextSimple]_vars

\* ------------------------------------------------------------------------
\* The SINAN loader (src/postgre-script/sinan_postgre_local.py): DDL, core
\* refresh, views and materialized views.  A table is the sequence of its
\* rows; a relation of pg_class is [kind, ispopulated, unique_index] with
\* kind "v" (view), "m" (materialized view) or "none".
\* ------------------------------------------------------------------------
MaxRuns == 2

\* the materialized view the loader indexes (lines 343, 352) and another name
WeeklyMv == "vw_inc_mun_semanal"
OtherView == "vw_casos_uf"
ViewNames == {WeeklyMv, OtherView}
NoName == "None"

Row(doenca, id_municip) == [doenca |-> doenca, id_municip |-> id_municip]

\* the rows a create_as query selects from the staging table: every row, or
\* the rows of one disease
RECURSIVE Select(_, _)
Select(create_as, rows) ==
  IF rows = <<>> THEN <<>>
  ELSE (IF create_as = "all" \/ Head(rows).doenca = create_as
        THEN <<Head(rows)>> ELSE <<>>) \o Select(create_as, Tail(rows))

NoTable == [exists |-> FALSE, rows |-> <<>>, id_type |-> "none"]
NoRelation == [kind |-> "none", ispopulated |-> FALSE, unique_index |-> FALSE]
Relation(kind, ispopulated, unique_index) ==
  [kind |-> kind, ispopulated |-> ispopulated, unique_index |-> unique_index]

\* entries of the YAML configuration
StagingCfg == [name |-> "staging_solicitacao", type |-> "staging", create_as |-> "none"]
CoreCfg(name, create_as) == [name |-> name, type |-> "core", create_as |-> create_as]
ViewCfg(name, materialized) == [name |-> name, materialized |-> materialized]
MvCfg(name, on_load) == [name |-> name, on_load |-> on_load]

\* variant: the INSERT is not preceded by the TRUNCATE
UpsertRows_NoTruncate(old, selected) == old \o selected

\* lines 263-264: TRUNCATE TABLE, then INSERT INTO ... create_as
UpsertRows(old, selected) == selected

\* lines 260-264: CREATE TABLE IF NOT EXISTS ... WITH NO DATA, TRUNCATE, INSERT.
\* A table created here takes the id columns as the staging table has them.
UpsertTable(table, create_as, rows) ==
  [exists |-> TRUE,
   rows |-> UpsertRows(table.rows, Select(create_as, rows)),
   id_type |-> IF table.exists THEN table.id_type ELSE "character varying"]

\* lines 273-296: the id columns of 'casos' become varchar(7); the values are
\* the loader's 7-wide zero-filled identifiers (lines 540-549), which lpad to
\* width 7 leaves as they are
MigrateCoreCasosTypes(name, table) ==
  IF name # "casos" THEN table
  ELSE IF table.id_type = "character varying" THEN table
  ELSE [table EXCEPT !.id_type = "character varying"]

\* lines 200-211
ViewExists(rel, name) == rel[name].kind \in {"v", "m"}

ViewResult(e, rel, log) == [err |-> e, relations |-> rel, log |-> log]

\* the [DROP] lines of lines 218-229, in configuration order
RECURSIVE DropLog(_, _)
DropLog(views_cfg, rel) ==
  IF views_cfg = <<>> THEN <<>>
  ELSE (IF ViewExists(rel, Head(views_cfg).name)
        THEN <<[tag |-> "DROP", name |-> Head(views_cfg).name]>> ELSE <<>>)
       \o DropLog(Tail(views_cfg), rel)

\* lines 214-229, one transaction: every configured view that exists is
\* dropped with the statement of its configured kind; DROP VIEW on a
\* materialized view (and the reverse) is refused by the server and the
\* transaction is rolled back
DropConfigViews(views_cfg, rel) ==
  LET named == {views_cfg[k].name : k \in 1..Len(views_cfg)}
      wrongKind ==
        \E k \in 1..Len(views_cfg) :
          /\ ViewExists(rel, views_cfg[k].name)
          /\ (rel[views_cfg[k].name].kind = "m") # views_cfg[k].materialized
  IN  IF wrongKind THEN ViewResult("ProgrammingError", rel, <<>>)
      ELSE ViewResult("",
                      [n \in DOMAIN rel |-> IF n \in named THEN NoRelation ELSE rel[n]],
                      DropLog(views_cfg, rel))

\* lines 300-313
HasUniqueIndexWithoutPredicateOnMv(rel, name) ==
  rel[name].kind # "none" /\ rel[name].unique_index

\* lines 316-328: CREATE UNIQUE INDEX is refused on a plain view
EnsureMvUniqueIndex(rel, name) ==
  IF HasUniqueIndexWithoutPredicateOnMv(rel, name) THEN ViewResult("", rel, <<>>)
  ELSE IF rel[name].kind = "m"
  THEN ViewResult("", [rel EXCEPT ![name].unique_index = TRUE], <<>>)
  ELSE ViewResult("ProgrammingError", rel, <<>>)

\* lines 350-353
RECURSIVE EnsureIndexes(_, _)
EnsureIndexes(views_cfg, rel) ==
  IF views_cfg = <<>> THEN ViewResult("", rel, <<>>)
  ELSE LET v == Head(views_cfg)
       IN  IF v.materialized /\ v.name = WeeklyMv
           THEN LET res == EnsureMvUniqueIndex(rel, v.name)
                IN  IF res.err # "" THEN res
                    ELSE EnsureIndexes(Tail(views_cfg), res.relations)
           ELSE EnsureIndexes(Tail(views_cfg), rel)

\* lines 332-349, one transaction per view: CREATE MATERIALIZED VIEW IF NOT
\* EXISTS ... WITH DATA leaves any relation of that name alone; CREATE OR
\* REPLACE VIEW is refused when the name is a materialized view
RECURSIVE CreateViewsLoop(_, _)
CreateViewsLoop(views_cfg, rel) ==
  IF views_cfg = <<>> THEN ViewResult("", rel, <<>>)
  ELSE LET v == Head(views_cfg)
           cur == rel[v.name]
       IN  IF v.materialized
           THEN CreateViewsLoop(Tail(views_cfg),
                  IF cur.kind = "none"
                  THEN [rel EXCEPT ![v.name] = Relation("m", TRUE, FALSE)]
                  ELSE rel)
           ELSE IF cur.kind = "m" THEN ViewResult("ProgrammingError", rel, <<>>)
           ELSE CreateViewsLoop(Tail(views_cfg),
                  [rel EXCEPT ![v.name] = Relation("v", FALSE, FALSE)])

\* lines 331-353
CreateOrReplaceViews(views_cfg, rel) ==
  LET made == CreateViewsLoop(views_cfg, rel)
  IN  IF made.err # "" THEN made ELSE EnsureIndexes(views_cfg, made.relations)

\* lines 409-483: raises when the named file exists and cannot be read as CSV
\* by either call of lines 441-443
EnsureAuxPopTableRaises(csv) == csv = "unreadable"

\* variant: the index alone decides
CanConcurrently_IndexOnly(rel, name) == HasUniqueIndexWithoutPredicateOnMv(rel, name)

\* line 396
CanConcurrently(rel, name) ==
  rel[name].ispopulated /\ HasUniqueIndexWithoutPredicateOnMv(rel, name)

Refresh(stmt, name) == [stmt |-> stmt, name |-> name]

RefreshResult(stmts, rel, log) == [issued |-> stmts, relations |-> rel, log |-> log]

\* lines 377-403 for one entry of refresh.materialized_views; the name is
\* looked up in pg_matviews, so only a materialized view exists for it
RefreshOne(mv, rel) ==
  IF ~(mv.name # NoName /\ mv.on_load) THEN RefreshResult(<<>>, rel, <<>>)
  ELSE IF rel[mv.name].kind # "m"
  THEN RefreshResult(<<>>, rel, <<[tag |-> "SKIP", name |-> mv.name]>>)
  ELSE RefreshResult(
         <<Refresh(IF CanConcurrently(rel, mv.name) THEN "CONCURRENTLY" ELSE "PLAIN",
                   mv.name)>>,
         [rel EXCEPT ![mv.name].ispopulated = TRUE], <<>>)

\* the configurations and environments a run is given
TablesInputs ==
  { <<StagingCfg, CoreCfg("casos", "all")>>,
    <<StagingCfg, CoreCfg("casos", "none")>>,
    <<StagingCfg, CoreCfg("resumo", "dengue"), CoreCfg("casos", "all")>> }

ViewsInputs ==
  { <<>>,
    <<ViewCfg(OtherView, FALSE), ViewCfg(WeeklyMv, TRUE)>>,
    <<ViewCfg(OtherView, TRUE), ViewCfg(WeeklyMv, TRUE)>> }

RefreshInputs ==
  { <<>>,
    <<MvCfg(WeeklyMv, FALSE)>>,
    <<MvCfg(NoName, TRUE), MvCfg(WeeklyMv, TRUE)>>,
    <<MvCfg(OtherView, TRUE), MvCfg(WeeklyMv, TRUE)>> }

DfInputs ==
  { <<>>,
    <<Row("dengue", "3550308")>>,
    <<Row("zika", "3304557"), Row("zika", "3304557")>> }

\* the views of a database: none yet, or what is left of earlier use
RelationsInputs ==
  { [n \in ViewNames |-> NoRelation] }
  \cup { [n \in ViewNames |-> IF n = WeeklyMv THEN Relation("m", p, u)
                               ELSE Relation("v", FALSE, FALSE)] : p, u \in BOOLEAN }
  \cup { [n \in ViewNames |-> IF n = WeeklyMv THEN Relation("m", FALSE, TRUE)
                               ELSE Relation("m", TRUE, FALSE)] }

\* the tables of a database: none yet, or the staging rows of an earlier run
\* with the core tables an earlier version made of them
TablesOf(cfg, rows, id_type) ==
  [n \in {"casos", "resumo"} |->
     IF \E k \in 1..Len(cfg) : cfg[k].name = n /\ cfg[k].create_as # "none"
     THEN LET k == CHOOSE j \in 1..Len(cfg) : cfg[j].name = n
          IN  [exists |-> TRUE, rows |-> Select(cfg[k].create_as, rows),
               id_type |-> id_type]
     ELSE NoTable]

EarlierRows == <<Row("dengue", "3550308"), Row("zika", "3304557")>>

scriptVars == << enhancedVars, simpleVars, rowIdx, procIdx, count, quality >>

InitETL ==
  /\ pc = "load"
  /\ tables \in TablesInputs
  /\ views \in ViewsInputs
  /\ refresh_cfg \in RefreshInputs
  /\ POP_MUN_CSV \in {"unset", "readable", "unreadable"}
  /\ df \in DfInputs
  /\ \/ /\ staging = <<>>
        /\ core = [n \in {"casos", "resumo"} |-> NoTable]
     \/ /\ staging = EarlierRows
        /\ \E t \in {"text", "character varying"} :
             core = TablesOf(tables, EarlierRows, t)
  /\ relations \in RelationsInputs
  /\ issued = <<>>
  /\ etlLog = <<>>
  /\ tblIdx = 0
  /\ mvIdx = 0
  /\ run = 1
  /\ err = ""
  /\ metaDataDf = <<>>
  /\ fullBranchingLogics = <<>>
  /\ blIdx = 0
  /\ processes = <<>>
  /\ process = <<>>
  /\ logic = <<>>
  /\ redcapDB = NoDataFrame
  /\ rowIdx = 0
  /\ procIdx = 0
  /\ count = 0
  /\ wrongRows = <<>>
  /\ warnings = <<>>
  /\ quality = NoQuality
  /\ db1 = <<>>
  /\ db2 = NoDataFrame
  /\ branchingLogic = <<>>

\* lines 586-616: the extract is appended to the staging table
LoadStaging ==
  /\ pc = "load"
  /\ staging' = staging \o df
  /\ tblIdx' = 0
  /\ pc' = "core"
  /\ UNCHANGED << scriptVars, err, tables, views, refresh_cfg, POP_MUN_CSV, df, core,
                  relations, issued, etlLog, mvIdx, run >>

\* lines 628-630 with 252-270, one table of the configuration
UpsertCoreTable ==
  /\ pc = "core"
  /\ tblIdx < Len(tables)
  /\ LET t == tables[tblIdx + 1]
         filled == UpsertTable(core[t.name], t.create_as, staging)
         dropped == DropConfigViews(views, relations)
     IN  IF t.type # "core" \/ t.create_as = "none"
         THEN /\ tblIdx' = tblIdx + 1
              /\ UNCHANGED << core, relations, etlLog, err, pc >>
         ELSE IF dropped.err # ""
         THEN /\ core' = [core EXCEPT ![t.name] = filled]
              /\ err' = dropped.err
              /\ pc' = "aborted"
              /\ UNCHANGED << relations, etlLog, tblIdx >>
         ELSE /\ core' = [core EXCEPT ![t.name] = MigrateCoreCasosTypes(t.name, filled)]
              /\ relations' = dropped.relations
              /\ etlLog' = etlLog \o dropped.log
              /\ tblIdx' = tblIdx + 1
              /\ UNCHANGED << err, pc >>
  /\ UNCHANGED << scriptVars, tables, views, refresh_cfg, POP_MUN_CSV, df, staging,
                  issued, mvIdx, run >>

\* lines 644-648: any failure is printed as a warning and the run goes on
CreateViews ==
  /\ pc = "core"
  /\ tblIdx = Len(tables)
  /\ LET made == CreateOrReplaceViews(views, relations)
     IN  IF EnsureAuxPopTableRaises(POP_MUN_CSV)
         THEN /\ etlLog' = Append(etlLog, [tag |-> "WARN", name |-> "views"])
              /\ UNCHANGED relations
         ELSE /\ relations' = made.relations
              /\ etlLog' = IF made.err = "" THEN etlLog
                           ELSE Append(etlLog, [tag |-> "WARN", name |-> "views"])
  /\ pc' = "grants"
  /\ UNCHANGED << scriptVars, err, tables, views, refresh_cfg, POP_MUN_CSV, df, staging,
                  core, issued, tblIdx, mvIdx, run >>

\* line 651: a GRANT that fails is a warning (lines 366-369)
ApplyGrants ==
  /\ pc = "grants"
  /\ mvIdx' = 0
  /\ pc' = "refresh"
  /\ UNCHANGED << scriptVars, err, tables, views, refresh_cfg, POP_MUN_CSV, df, staging,
                  core, relations, issued, etlLog, tblIdx, run >>

\* lines 376-403, one entry of refresh.materialized_views
RefreshMaterialized ==
  /\ pc = "refresh"
  /\ mvIdx < Len(refresh_cfg)
  /\ LET res == RefreshOne(refresh_cfg[mvIdx + 1], relations)
     IN  /\ relations' = res.relations
         /\ etlLog' = etlLog \o res.log
         /\ issued' = issued \o res.issued
  /\ mvIdx' = mvIdx + 1
  /\ UNCHANGED << scriptVars, err, pc, tables, views, refresh_cfg, POP_MUN_CSV, df,
                  staging, core, tblIdx, run >>

\* lines 656-670: the counts are printed, then the success message
FinishPipeline ==
  /\ pc = "refresh"
  /\ mvIdx = Len(refresh_cfg)
  /\ pc' = "success"
  /\ UNCHANGED << scriptVars, err, etlVars >>

\* the script is started again with the same configuration and extract
NextRun ==
  /\ pc = "success"
  /\ run < MaxRuns
  /\ run' = run + 1
  /\ etlLog' = <<>>
  /\ tblIdx' = 0
  /\ mvIdx' = 0
  /\ pc' = "load"
  /\ UNCHANGED << scriptVars, err, tables, views, refresh_cfg, POP_MUN_CSV, df, staging,
                  core, relations, issued >>

NextETL ==
  \/ LoadStaging
  \/ UpsertCoreTable
  \/ CreateViews
  \/ ApplyGrants
  \/ RefreshMaterialized
  \/ FinishPipeline
  \/ NextRun

SpecETL == InitETL /\ [][NextETL]_vars

\* ------------------------------------------------------------------------
\* Vocabulary of the properties
\* ------------------------------------------------------------------------
CondPositions(rule) == {k \in 1..Len(rule) : rule[k].kind = "cond"}
ConnPositions(rule) == {k \in 1..Len(rule) : rule[k].kind = "conn"}
NumConds(rule) == Cardinality(CondPositions(rule))

\* the connector words of a rule, in order
RECURSIVE ConnectorsOf(_)
ConnectorsOf(rule) ==
  IF rule = <<>> THEN <<>>
  ELSE (IF Head(rule).kind = "conn" THEN <<Head(rule).op>> ELSE <<>>)
       \o ConnectorsOf(Tail(rule))

\* Condition, Connector, Condition, ..., Condition
Alternating(rule) ==
  /\ Len(rule) % 2 = 1
  /\ \A k \in 1..Len(rule) :
       IF k % 2 = 1 THEN rule[k].kind = "cond"
       ELSE rule[k].kind = "conn" /\ rule[k].op \in {"and", "or"}

CondTrue(item, row) == row[item.verVar] = item.verNum

\* boolean meaning with 'and' binding tighter than 'or': some maximal run of
\* conditions joined by 'and' holds throughout
RuleHolds(rule, row) ==
  \E i, j \in CondPositions(rule) :
    /\ i <= j
    /\ i = 1 \/ rule[i - 1].op = "or"
    /\ j = Len(rule) \/ rule[j + 1].op = "or"
    /\ \A k \in i..j : IF rule[k].kind = "cond" THEN CondTrue(rule[k], row)
                       ELSE rule[k].op = "and"

\* flat chain: the first n items folded strictly left to right
RECURSIVE FlatValue(_, _, _)
FlatValue(rule, row, n) ==
  IF n = 1 THEN CondTrue(rule[1], row)
  ELSE IF rule[n - 1].op = "and"
       THEN FlatValue(rule, row, n - 2) /\ CondTrue(rule[n], row)
       ELSE FlatValue(rule, row, n - 2) \/ CondTrue(rule[n], row)

FlatHolds(rule, row) == FlatValue(rule, row, Len(rule))

\* meaning of the text of a one- or two-comparison rule
TextMeaning(rule, row) ==
  IF Len(rule) = 1 THEN CondTrue(rule[1], row)
  ELSE IF rule[2].op = "and"
       THEN CondTrue(rule[1], row) /\ CondTrue(rule[3], row)
       ELSE CondTrue(rule[1], row) \/ CondTrue(rule[3], row)

FieldsExist(rule) == ({rule[1].field} \cup ReferencedFields(rule)) \subseteq redcapDB.columns

Populated(rule, row) == row[rule[1].field] # <<>>

CurRow == redcapDB.rows[rowIdx + 1]
CurProcess == processes[procIdx + 1]

\* this step processes the pair (CurRow, CurProcess)
Checked == pc = "check" /\ << rowIdx, procIdx >>' # << rowIdx, procIdx >>

\* the pair that follows the current one in the pass
Advanced ==
  << rowIdx, procIdx >>' = IF procIdx + 1 = Len(processes)
                            THEN << rowIdx + 1, 0 >> ELSE << rowIdx, procIdx + 1 >>

\* the pair (record r, rule p) has been through lines 82-115
Processed(r, p) ==
  /\ pc \in {"check", "done"}
  /\ r \in 0..(Len(redcapDB.rows) - 1)
  /\ p \in 1..Len(processes)
  /\ r < rowIdx \/ (r = rowIdx /\ p <= procIdx)

ProcessedPairs ==
  { rp \in (0..(Len(redcapDB.rows) - 1)) \X (1..Len(processes)) :
      Processed(rp[1], rp[2]) }

RowAt(r) == redcapDB.rows[r + 1]

\* the grammar rules whose text (either spacing) is the given logic string
RulesOfText(text, rules) ==
  { r \in rules : \E b \in BOOLEAN : Serialize(r, b) = text }

\* ------------------------------------------------------------------------
\* Properties
\* ------------------------------------------------------------------------

\* C1: in the worked scenario (rule "[has_symptom] = '1'" governing
\* symptom_detail; records ('1',''), ('1','fever'), ('0','')) the pass ends
\* with exactly one violation, attributed to the first record, and a quality
\* score of 2/3 x 100.
C1_ScenarioOneViolation ==
  (metaDataDf = ScenarioMetadata /\ pc = "done"
     /\ redcapDB.columns = ScenarioRecords.columns
     /\ redcapDB.rows = ScenarioRecords.rows)
    => /\ Len(wrongRows) = 1
       /\ wrongRows[1].index = 0
       /\ 3 * quality.num = 2 * quality.den

\* C2: a pair whose fields all exist is counted consistent (nothing appended,
\* counter one higher) if and only if the governed field is non-empty exactly
\* when the rule is true.
C2_Bidirectional ==
  [][ (Checked /\ FieldsExist(CurProcess))
        => ( (wrongRows' = wrongRows /\ count' = count + 1)
               <=> (Populated(CurProcess, CurRow) <=> RuleHolds(CurProcess, CurRow)) )
    ]_vars

\* C3: for a pair whose governed field is non-empty (rule of any number of
\* conditions, fields present): a true rule appends nothing and leaves the
\* counter one higher; a false rule appends exactly one violation and takes
\* the counter back down by one.
C3_PopulatedDirection ==
  [][ (Checked /\ FieldsExist(CurProcess) /\ Populated(CurProcess, CurRow))
        => IF RuleHolds(CurProcess, CurRow)
           THEN wrongRows' = wrongRows /\ count' = count + 1
           ELSE /\ Len(wrongRows') = Len(wrongRows) + 1
                /\ SubSeq(wrongRows', 1, Len(wrongRows)) = wrongRows
                /\ count' = (count + 1) - 1
    ]_vars

\* C3 witness: the pass has finished having met both a populated pair with a
\* true rule and a populated pair with a false rule (recorded).
C3_Witness ==
  /\ pc = "done"
  /\ wrongRows # <<>>
  /\ \E rp \in ProcessedPairs :
       /\ FieldsExist(processes[rp[2]])
       /\ Populated(processes[rp[2]], RowAt(rp[1]))
       /\ RuleHolds(processes[rp[2]], RowAt(rp[1]))
  /\ \E p \in 1..Len(processes) : NumConds(processes[p]) >= 2

\* the truth value the checker uses for a rule on a record
TruthUsed(rule, row) == PyEval(ConditionString(rule, row)) # 0

\* the (rule, record) pairs of the pass with three or more conditions whose
\* fields are all present
LongPairs ==
  { rp \in (0..(Len(redcapDB.rows) - 1)) \X (1..Len(processes)) :
      NumConds(processes[rp[2]]) >= 3 /\ FieldsExist(processes[rp[2]]) }

\* C4 (as stated): for every compiled rule with three or more conditions and
\* every record, the truth value used equals the strict left-to-right fold of
\* the conditions, 'and' and 'or' having the same precedence.
C4_FlatChain ==
  pc \in {"check", "done"}
    => \A rp \in LongPairs :
         TruthUsed(processes[rp[2]], RowAt(rp[1]))
           <=> FlatHolds(processes[rp[2]], RowAt(rp[1]))

\* C4 (amended): for every compiled rule with three or more conditions and
\* every record, the truth value used is that of the expression with 'and'
\* binding tighter than 'or': 'c1 or c2 and c3' is 'c1 or (c2 and c3)'.
C4_AndBindsTighter ==
  pc \in {"check", "done"}
    => \A rp \in LongPairs :
         TruthUsed(processes[rp[2]], RowAt(rp[1]))
           <=> RuleHolds(processes[rp[2]], RowAt(rp[1]))

\* C4 witness: a populated pair of a rule 'c1 or c2 and c3' on which the flat
\* fold and the precedence reading differ has been processed.
C4_Witness ==
  \E rp \in ProcessedPairs \cap LongPairs :
    /\ Populated(processes[rp[2]], RowAt(rp[1]))
    /\ FlatHolds(processes[rp[2]], RowAt(rp[1]))
         # RuleHolds(processes[rp[2]], RowAt(rp[1]))

\* the rules of one or two one-character comparisons that the text of the
\* current rule spells
CurTextRules ==
  RulesOfText(fullBranchingLogics[procIdx + 1][1],
              GrammarRules(1, FieldG) \cup GrammarRules(2, FieldG))

\* C5: for a rule compiled from a one- or two-comparison text with
\* one-character values, the decision taken on a populated pair follows the
\* boolean meaning of the text under string equality: no violation exactly
\* when the single equality holds / both hold ('and') / at least one holds
\* ('or').
C5_TextMeaning ==
  [][ (Checked /\ FieldsExist(CurProcess) /\ Populated(CurProcess, CurRow))
        => \A r \in CurTextRules :
             (wrongRows' = wrongRows) <=> TextMeaning(r, CurRow)
    ]_vars

\* C5 witness: a populated pair of a two-comparison 'or' text in which exactly
\* one equality holds has been processed.
C5_Witness ==
  \E rp \in ProcessedPairs :
    /\ FieldsExist(processes[rp[2]])
    /\ Populated(processes[rp[2]], RowAt(rp[1]))
    /\ \E r \in RulesOfText(fullBranchingLogics[rp[2]][1], GrammarRules(2, FieldG)) :
         /\ r[2].op = "or"
         /\ CondTrue(r[1], RowAt(rp[1])) # CondTrue(r[3], RowAt(rp[1]))

\* C6: for every well-formed text "[f1] = 'v1' (and|or) [f2] = 'v2' ..." the
\* compiled rule has as many conditions as the text has comparisons and the
\* same connector sequence.
C6_RoundTrip ==
  \A i \in 1..Len(processes) :
    \A r \in RulesOfText(fullBranchingLogics[i][1],
                         WellFormedRules(FieldG) \cup LongValueRules(FieldG)) :
      /\ NumConds(processes[i]) = NumConds(r)
      /\ ConnectorsOf(processes[i]) = ConnectorsOf(r)

\* C7: every rule appended to the rule set alternates Condition, Connector,
\* ..., Condition, starting and ending with a Condition, so N conditions come
\* with N-1 connectors, each 'and' or 'or'.
C7_RuleShape ==
  \A i \in 1..Len(processes) :
    /\ Alternating(processes[i])
    /\ Cardinality(ConnPositions(processes[i])) = NumConds(processes[i]) - 1

\* C7 witness: a rule of three conditions has been appended.
C7_Witness ==
  \E i \in 1..Len(processes) : NumConds(processes[i]) >= 3

\* the metadata rows with non-empty branching logic
LogicRows == {k \in 1..Len(metaDataDf) : metaDataDf[k].branching_logic # <<>>}

\* compilation has gone through every field
Compiled == pc \in {"check", "done"} \/ (pc = "for" /\ blIdx = Len(fullBranchingLogics))

\* C8: a field with empty branching logic yields no rule, every field with
\* non-empty logic that compiles yields exactly one rule of at least one
\* condition; once compilation is through, the number of rules is the number
\* of metadata fields with non-empty logic.
C8_OneRulePerLogic ==
  /\ \A i \in 1..Len(fullBranchingLogics) : fullBranchingLogics[i][1] # <<>>
  /\ \A i \in 1..Len(processes) :
       /\ NumConds(processes[i]) >= 1
       /\ processes[i][1].field = fullBranchingLogics[i][2]
  /\ Len(processes) <= Cardinality(LogicRows)
  /\ Compiled => Len(processes) = Cardinality(LogicRows)

\* C8 witness: compilation is through for metadata holding both a field with
\* logic and a field without.
C8_Witness ==
  /\ Compiled
  /\ processes # <<>>
  /\ Cardinality(LogicRows) < Len(metaDataDf)

\* C9: with zero records or zero rules the score computation does not raise
\* (no 0/0) and the run ends with a defined score.
C9_NoDivisionByZero == err # "ZeroDivisionError"

\* C10: a pair whose governed field or some referenced field is absent from
\* the record columns does not end the pass and appends no violation; the
\* pass moves on to the next pair, and only ends with every pair examined.
C10_MissingFieldSkipped ==
  /\ [][ (Checked /\ ~FieldsExist(CurProcess))
           => /\ pc' = "check"
              /\ err' = ""
              /\ wrongRows' = wrongRows
              /\ Advanced ]_vars
  /\ [](pc = "done" => rowIdx = Len(redcapDB.rows) /\ procIdx = 0)

\* C10 witness: the pass has finished over two records and at least one pair
\* with an absent field was skipped with a warning.
C10_Witness ==
  /\ pc = "done"
  /\ warnings # <<>>
  /\ Len(redcapDB.rows) >= 2
  /\ \E p \in 1..Len(processes) : ~FieldsExist(processes[p])

\* the (record, rule) pairs of the pass
AllPairs == (0..(Len(redcapDB.rows) - 1)) \X (1..Len(processes))

\* the pairs a KeyError takes out of scoring: governed field absent, or
\* governed field filled and a referenced field absent
SkippedPairs ==
  { rp \in AllPairs :
      \/ processes[rp[2]][1].field \notin redcapDB.columns
      \/ /\ Populated(processes[rp[2]], RowAt(rp[1]))
         /\ ~(ReferencedFields(processes[rp[2]]) \subseteq redcapDB.columns) }

\* C11: skipped pairs are left out of the score on both sides: the
\* denominator is the number of pairs actually scored and the numerator the
\* consistent ones among them.
C11_SkippedLeftOut ==
  pc = "done"
    => /\ quality.den = Cardinality(AllPairs) - Cardinality(SkippedPairs)
       /\ quality.num = quality.den - Len(wrongRows)

\* C14: a logic string outside the grammar affects at most its own field: no
\* step of the compiler ends the run.
C14_MalformedIsolated == [][pc = "while" => pc' # "aborted"]_vars

\* position of the first single quote of a text holding one
QuotePos(text) ==
  CHOOSE k \in 1..Len(text) : text[k] = "'" /\ \A m \in 1..(k - 1) : text[m] # "'"

\* the n characters that follow the first single quote
CharsAfterQuote(text, n) ==
  [k \in 1..(IF QuotePos(text) + n <= Len(text) THEN n ELSE Len(text) - QuotePos(text))
     |-> text[QuotePos(text) + k]]

\* this step of the compiler stores a condition
StoresCondition == pc = "while" /\ logic # <<>> /\ Len(process') > Len(process)

\* C16 (as stated): the value stored for a condition is exactly the two
\* characters that follow the condition's opening quote.
C16_TwoCharLiteral ==
  [][ StoresCondition
        => process'[Len(process) + 1].verNum = CharsAfterQuote(logic, 2) ]_vars

\* C16 (amended): the value stored for a condition is exactly the one
\* character that follows the condition's opening quote.
C16_OneCharLiteral ==
  [][ StoresCondition
        => process'[Len(process) + 1].verNum = CharsAfterQuote(logic, 1) ]_vars

LongValueLogics == {Serialize(r, TRUE) : r \in LongValueRules(FieldG)}

\* C16 witness: a rule compiled from a text whose first value is '10' holds
\* '1' as its first value.
C16_Witness ==
  \E i \in 1..Len(processes) :
    /\ fullBranchingLogics[i][1] \in LongValueLogics
    /\ processes[i][1].verNum = <<"1">>

\* the compiler is at, or has finished, the text of one of the given strings
Compiling(texts) == blIdx >= 1 /\ fullBranchingLogics[blIdx][1] \in texts

CompilerError == err \in {"ValueError", "IndexError"}

IsPrefix(short, long) ==
  Len(short) <= Len(long) /\ short = SubSeq(long, 1, Len(short))

\* C17: a text of the grammar holding a value longer than one character
\* compiles normally, to the same conditions and connectors, the long value
\* replaced by a leading prefix.
C17_LongValueTruncated ==
  \A r \in LongValueRules(FieldG) :
    Compiling({Serialize(r, TRUE)})
      => /\ ~CompilerError
         /\ Len(processes) >= blIdx
              => /\ Len(processes[blIdx]) = Len(r)
                 /\ ConnectorsOf(processes[blIdx]) = ConnectorsOf(r)
                 /\ \A k \in CondPositions(r) :
                      /\ processes[blIdx][k].verVar = r[k].verVar
                      /\ IsPrefix(processes[blIdx][k].verNum, r[k].verNum)

\* the text that follows the expected place of the closing quote
AfterQuote(text) == SubSeq(text, QuotePos(text) + 3, Len(text))

\* this step of the compiler stores a condition and a connector
StoresConnector == pc = "while" /\ logic # <<>> /\ Len(process') = Len(process) + 2

\* C18 (as stated): after the closing quote and any amount of whitespace the
\* connector is 'or' exactly when the next character is 'o', 'and' otherwise.
C18_AnyWhitespace ==
  [][ StoresConnector
        => process'[Len(process) + 2] =
             Connector(IF Head(StripBlanks(AfterQuote(logic))) = "o"
                       THEN "or" ELSE "and") ]_vars

\* C18 (amended): after the closing quote and at most one blank the connector
\* is 'or' exactly when the next character is 'o', 'and' for any other
\* following text (a second blank included); no third value is emitted.
C18_OneBlank ==
  [][ StoresConnector
        => LET after == AfterQuote(logic)
               look == IF after[1] = " " THEN after[2] ELSE after[1]
           IN  /\ process'[Len(process) + 2] =
                    Connector(IF look = "o" THEN "or" ELSE "and")
               /\ process'[Len(process) + 2].op \in {"and", "or"} ]_vars

\* C18 witness: the text with two blanks before 'or' has compiled to a rule
\* whose connector is 'and'.
C18_Witness ==
  \E i \in 1..Len(processes) :
    /\ fullBranchingLogics[i][1] =
         FirstComparison \o <<" ", " ", "o", "r", " ">> \o SecondComparison
    /\ ConnectorsOf(processes[i]) = <<"and">>

\* C19: when the text after the last condition holds no further '[' (a
\* trailing blank, a closing parenthesis) compilation ends without error.
C19_StopsWithoutBracket == Compiling(TrailingLogics) => ~CompilerError

\* the pair the simple checker looks at in this step
CurSimpleRow == db2.rows[rowIdx + 1]
CurTriple == branchingLogic[procIdx + 1]
SimpleChecked == pc = "scheck" /\ << rowIdx, procIdx >>' # << rowIdx, procIdx >>

\* C12: simple checker: the violation counter goes up exactly when the
\* record's value of the referenced field equals the expected literal while
\* the governed field is empty (so never when both are empty).
C12_SimpleViolation ==
  [][ (SimpleChecked /\ {CurTriple[1], CurTriple[2]} \subseteq db2.columns)
        => ( (count' = count + 1)
               <=> (CurSimpleRow[CurTriple[2]] = CurTriple[3]
                      /\ CurSimpleRow[CurTriple[1]] = <<>>) ) ]_vars

\* C13: under either checker an error raised while a pair is scored never
\* ends the run.
C13_ScoringNeverAborts ==
  [][ (Checked \/ SimpleChecked) => (pc' # "aborted" /\ err' = "") ]_vars

\* C15: the simple checker's score has the number of pairs examined as its
\* denominator and that number less the violations as its numerator, so it
\* lies between 0 and 100.
C15_SimpleScore ==
  (pc = "done" /\ db1 # <<>>)
    => /\ quality.den = Len(db2.rows) * Len(branchingLogic)
       /\ quality.num = quality.den - count
       /\ 0 <= quality.num /\ quality.num <= quality.den

\* the metadata rows of the simple checker that carry logic, as
\* <<text, field_name>>
SimpleLogicRows == FilterLogics(db1)

\* C20: the simple compiler emits, for every non-empty logic string, several
\* conditions or not, exactly one triple [governed field, first bracketed
\* identifier, quoted value of the first condition].
C20_FirstConditionOnly ==
  pc \in {"scheck", "done"}
    => /\ Len(branchingLogic) = Len(SimpleLogicRows)
       /\ \A k \in 1..Len(branchingLogic) :
            \A r \in RulesOfText(SimpleLogicRows[k][1], WellFormedRules(FieldG)) :
              branchingLogic[k] = << SimpleLogicRows[k][2], r[1].verVar, r[1].verNum >>

\* the pairs of the pass whose rule the checker evaluates to 0
FalsePairs ==
  { rp \in AllPairs :
      /\ FieldsExist(processes[rp[2]])
      /\ Populated(processes[rp[2]], RowAt(rp[1]))
      /\ ~TruthUsed(processes[rp[2]], RowAt(rp[1])) }

\* C21: every violation recorded for a rule that evaluates to 0 is the pair
\* [record index, referenced field of the rule's first condition], and the
\* step that records it takes the one just added to the counter back off.
C21_ViolationEntry ==
  [][ (Checked /\ wrongRows' # wrongRows)
        => /\ ~TruthUsed(CurProcess, CurRow)
           /\ wrongRows' = Append(wrongRows, PairEntry(rowIdx, CurProcess[1].verVar))
           /\ count' = (count + 1) - 1 ]_vars

\* C21 witness: the pass has finished and the list holds the entry of a pair
\* whose rule, of two or more conditions, evaluates to 0.
C21_Witness ==
  /\ pc = "done"
  /\ \E rp \in FalsePairs :
       /\ NumConds(processes[rp[2]]) >= 2
       /\ \E k \in 1..Len(wrongRows) :
            wrongRows[k] = PairEntry(rp[1], processes[rp[2]][1].verVar)

\* this step processes a pair of a single-comparison rule that is false on a
\* record whose governed field is filled
SingleFalse ==
  /\ Checked
  /\ NumConds(CurProcess) = 1
  /\ FieldsExist(CurProcess)
  /\ Populated(CurProcess, CurRow)
  /\ ~CondTrue(CurProcess[1], CurRow)

\* C22 (as stated): for a single-comparison rule that is false on a record
\* whose governed field is filled, the entry appended is the rule itself and
\* the counter keeps the one just added.
C22_FullRuleKept ==
  [][ SingleFalse
        => /\ wrongRows' = Append(wrongRows, RuleEntry(CurProcess))
           /\ count' = count + 1 ]_vars

\* C22 (amended): a single-comparison rule compiles to one item, never two, so
\* it is handled like every other rule: when it is false on a record whose
\* governed field is filled, the entry appended is the pair [record index,
\* referenced field] and the counter is taken back down by one.
C22_SingleAsChain ==
  /\ [][ SingleFalse
           => /\ wrongRows' = Append(wrongRows, PairEntry(rowIdx, CurProcess[1].verVar))
              /\ count' = (count + 1) - 1 ]_vars
  /\ [](\A i \in 1..Len(processes) : Len(processes[i]) # 2)

\* C22 witness: a single-comparison rule, false on a record with the governed
\* field filled, has been processed and its pair is in the list.
C22_Witness ==
  \E rp \in ProcessedPairs \cap FalsePairs :
    /\ Len(processes[rp[2]]) = 1
    /\ wrongRows # <<>>
    /\ wrongRows[Len(wrongRows)] = PairEntry(rp[1], processes[rp[2]][1].verVar)
    /\ count < Cardinality(ProcessedPairs)

\* C23: the warning printed when a pair is skipped names a field that is
\* absent from the record columns, be it the governed field or a field a
\* condition refers to.
C23_WarningNamesAbsent ==
  [][ (Checked /\ warnings' # warnings)
        => /\ Len(warnings') = Len(warnings) + 1
           /\ warnings'[Len(warnings')] \notin redcapDB.columns ]_vars

\* C24: every step of the pass leaves the rule set and the records as they
\* are, and either leaves the violation list as it is or appends exactly one
\* entry to it.
C24_PassFrame ==
  [][ pc = "check"
        => /\ processes' = processes
           /\ redcapDB' = redcapDB
           /\ \/ wrongRows' = wrongRows
              \/ /\ Len(wrongRows') = Len(wrongRows) + 1
                 /\ SubSeq(wrongRows', 1, Len(wrongRows)) = wrongRows ]_vars

\* C24 witness: the pass has finished with two violations listed, the rule
\* set and two records in place.
C24_Witness ==
  /\ pc = "done"
  /\ Len(wrongRows) >= 2
  /\ Len(redcapDB.rows) >= 2
  /\ processes # <<>>

\* C25: once any number of pairs has been processed, the counter plus the
\* length of the violation list is the number of pairs processed, and the
\* list holds at most one entry per pair.
C25_CounterListAgree ==
  pc \in {"check", "done"}
    => /\ count + Len(wrongRows) = Cardinality(ProcessedPairs)
       /\ \A r \in 0..(Len(redcapDB.rows) - 1) :
            Cardinality({k \in 1..Len(wrongRows) : wrongRows[k].index = r})
              <= Cardinality({p \in 1..Len(processes) : Processed(r, p)})

\* C25 witness: the pass has finished having listed a violation, skipped a
\* pair with a warning and counted a consistent pair.
C25_Witness ==
  /\ pc = "done"
  /\ wrongRows # <<>>
  /\ warnings # <<>>
  /\ count >= 2
  /\ count + Len(wrongRows) = Cardinality(AllPairs)

\* C26: the counter stays between 0 and the number of pairs processed, and a
\* printed score (at least one record and one rule) lies between 0 and 100.
C26_ScoreRange ==
  /\ pc \in {"check", "done"}
       => (0 <= count /\ count <= Cardinality(ProcessedPairs))
  /\ pc = "done"
       => /\ quality.den > 0
          /\ 0 <= quality.num * 100
          /\ quality.num * 100 <= 100 * quality.den

\* C26 witness: a pass in which every pair is a violation has printed 0%.
C26_Witness ==
  /\ pc = "done"
  /\ quality.num = 0
  /\ quality.den >= 2
  /\ Len(wrongRows) = quality.den

\* C27: each iteration of the compiler's loop either raises, or ends the
\* compilation of the field (nothing left), or leaves strictly less text than
\* it found, so the loop runs at most as many times as the text has
\* characters.
C27_LoopShortens ==
  [][ (pc = "while" /\ logic # <<>>)
        => \/ pc' = "aborted"
           \/ logic' = <<>>
           \/ Len(logic') < Len(logic) ]_vars

\* C27 witness: the loop has run twice on one text, storing two conditions
\* and two connectors, and text is still left for a third iteration.
C27_Witness ==
  /\ pc = "while"
  /\ Len(process) = 4
  /\ logic # <<>>
  /\ Len(logic) + 2 < Len(fullBranchingLogics[blIdx][1])

\* the entry of refresh.materialized_views this step of the loader is at
CurMv == refresh_cfg[mvIdx + 1]
Refreshing == pc = "refresh" /\ mvIdx < Len(refresh_cfg)

\* the entry names a materialized view of the database
IsMatView(name) == name \in ViewNames /\ relations[name].kind = "m"

\* C28: refresh_materialized issues nothing for an entry that is not marked
\* on_load or names no existing materialized view; for any other entry it
\* issues exactly one REFRESH, CONCURRENTLY exactly when the view is already
\* populated and has a unique index without predicate, plain otherwise.
C28_RefreshChoice ==
  [][ Refreshing
        => IF ~CurMv.on_load \/ ~IsMatView(CurMv.name)
           THEN issued' = issued
           ELSE LET can == /\ relations[CurMv.name].ispopulated
                           /\ relations[CurMv.name].unique_index
                IN  issued' = Append(issued,
                                     Refresh(IF can THEN "CONCURRENTLY" ELSE "PLAIN",
                                             CurMv.name)) ]_vars

\* C28 witness: a run has ended after a plain REFRESH of an indexed view that
\* was not populated, a CONCURRENTLY refresh and an entry skipped for a view
\* that does not exist.
C28_Witness ==
  /\ pc = "success"
  /\ \E i \in 1..Len(issued) :
       issued[i].stmt = "PLAIN" /\ relations[issued[i].name].unique_index
  /\ \E i \in 1..Len(issued) : issued[i].stmt = "CONCURRENTLY"
  /\ \E k \in 1..Len(refresh_cfg) :
       refresh_cfg[k].on_load /\ ~IsMatView(refresh_cfg[k].name)

\* this step of the loader calls upsert_core_table with a create_as query
Upserting ==
  /\ pc = "core"
  /\ tblIdx < Len(tables)
  /\ tables[tblIdx + 1].type = "core"
  /\ tables[tblIdx + 1].create_as # "none"

\* C29: every call of upsert_core_table leaves the core table with exactly
\* the rows its create_as query selects from the staging table, whatever the
\* table held before, so repeated calls against unchanged staging rows give
\* the same table and nothing accumulates.
C29_UpsertIdempotent ==
  /\ [][ Upserting
           => LET t == tables[tblIdx + 1]
              IN  /\ core'[t.name].exists
                  /\ core'[t.name].rows = Select(t.create_as, staging) ]_vars
  /\ [](pc = "success"
          => \A k \in 1..Len(tables) :
               (tables[k].type = "core" /\ tables[k].create_as # "none")
                 => core[tables[k].name].rows = Select(tables[k].create_as, staging))

\* C29 witness: a second run over staging rows that no run has added to has
\* ended with the core table holding the selected rows, once.
C29_Witness ==
  /\ pc = "success"
  /\ run = 2
  /\ df = <<>>
  /\ staging # <<>>
  /\ \E k \in 1..Len(tables) :
       /\ tables[k].type = "core" /\ tables[k].create_as # "none"
       /\ core[tables[k].name].rows = staging

\* C30: whenever the loader reaches its success message every configured
\* view and materialized view exists, the ones upsert_core_table dropped in
\* this run included.
C30_ViewsRecreated ==
  pc = "success"
    => /\ \A k \in 1..Len(views) : relations[views[k].name].kind # "none"
       /\ \A k \in 1..Len(etlLog) :
            etlLog[k].tag = "DROP" => relations[etlLog[k].name].kind # "none"

====
